---- MODULE Spec2Model ----
(***************************************************************************)
(* Model of the two scripts of the repository:                             *)
(*   src/test_api.py     builds an HMAC-signed request (the signer) and    *)
(*                       sends it;                                         *)
(*   src/derive_creds.py derives API credentials through ClobClient.       *)
(* Strings are sequences of one-character strings, bytes are 0..255.       *)
(***************************************************************************)
EXTENDS Integers, Sequences, FiniteSets, TLC

\* src/test_api.py, one run of the script per caller: every variable but
\* clock is a function of the caller.
VARIABLES
    clock,       \* time.time(), whole seconds
    pc,          \* the line the run is about to execute, "done" or "raised"
    API_KEY,     \* line 4
    API_SECRET,  \* line 5
    PASSPHRASE,  \* line 6
    method,      \* the method in the message of line 9
    path,        \* the path in the message of line 9
    ts,          \* line 8
    msg,         \* line 9
    secret,      \* line 14: the decoded key bytes
    sig,         \* line 15
    headers,     \* lines 18-23
    r            \* line 26: the request handed to requests.get

\* src/derive_creds.py
VARIABLES
    dpc,          \* the line main is about to execute, "done" when returned
    PRIVATE_KEY,  \* line 20
    FUNDER,       \* line 24
    SIG_TYPE,     \* line 27
    client,       \* line 43 / 51
    creds,        \* line 59
    balance,      \* line 74
    calls,        \* the calls made to py_clob_client, in order
    printed       \* the blocks printed, in order

signerVars ==
    <<clock, pc, API_KEY, API_SECRET, PASSPHRASE, method, path, ts, msg,
      secret, sig, headers, r>>

deriveVars ==
    <<dpc, PRIVATE_KEY, FUNDER, SIG_TYPE, client, creds, balance, calls,
      printed>>

vars == <<signerVars, deriveVars>>

(***************************************************************************)
(* Characters, bytes and the conversions of the standard library           *)
(***************************************************************************)

\* The printable ASCII characters in code order, the first being chr(32);
\* the double quote, the backslash and the backtick (never part of a
\* message here) are held by name.
AsciiPrintable ==
    <<" ", "!", "dquote", "#", "$", "%", "&", "'", "(", ")", "*", "+", ",", "-",
      ".", "/", "0", "1", "2", "3", "4", "5", "6", "7", "8", "9", ":", ";",
      "<", "=", ">", "?", "@", "A", "B", "C", "D", "E", "F", "G", "H", "I",
      "J", "K", "L", "M", "N", "O", "P", "Q", "R", "S", "T", "U", "V", "W",
      "X", "Y", "Z", "[", "backslash", "]", "^", "_", "backtick", "a", "b", "c", "d", "e",
      "f", "g", "h", "i", "j", "k", "l", "m", "n", "o", "p", "q", "r", "s",
      "t", "u", "v", "w", "x", "y", "z", "{", "|", "}", "~">>

\* The standard base64 alphabet (binascii's table_b2a_base64).
B64Alphabet ==
    <<"A", "B", "C", "D", "E", "F", "G", "H", "I", "J", "K", "L", "M", "N",
      "O", "P", "Q", "R", "S", "T", "U", "V", "W", "X", "Y", "Z", "a", "b",
      "c", "d", "e", "f", "g", "h", "i", "j", "k", "l", "m", "n", "o", "p",
      "q", "r", "s", "t", "u", "v", "w", "x", "y", "z", "0", "1", "2", "3",
      "4", "5", "6", "7", "8", "9", "+", "/">>

Digits == <<"0", "1", "2", "3", "4", "5", "6", "7", "8", "9">>

IndexOf(seq, ch) == CHOOSE i \in 1..Len(seq) : seq[i] = ch

\* ord(ch) of a printable ASCII character.
Ord(ch) == 31 + IndexOf(AsciiPrintable, ch)

\* str.encode(): the bytes of an ASCII string.
EncodeUtf8(s) == [i \in 1..Len(s) |-> Ord(s[i])]

RECURSIVE DecimalDigits(_)
DecimalDigits(n) ==
    IF n < 10 THEN <<Digits[n + 1]>>
    ELSE Append(DecimalDigits(n \div 10), Digits[(n % 10) + 1])

\* str(int(t)) for t >= 0: the decimal digits, no sign, no leading zero.
IntToStr(n) == DecimalDigits(n)

\* bytes.translate(_urlsafe_decode_translation): "-" -> "+", "_" -> "/".
UrlsafeDecodeTranslate(s) ==
    [i \in 1..Len(s) |-> IF s[i] = "-" THEN "+" ELSE IF s[i] = "_" THEN "/" ELSE s[i]]

\* bytes.translate(_urlsafe_encode_translation): "+" -> "-", "/" -> "_".
UrlsafeEncodeTranslate(s) ==
    [i \in 1..Len(s) |-> IF s[i] = "+" THEN "-" ELSE IF s[i] = "/" THEN "_" ELSE s[i]]

IsB64Char(ch) == \E i \in 1..Len(B64Alphabet) : B64Alphabet[i] = ch

\* table_a2b_base64: the 6-bit value of a character of the alphabet.
B64Value(ch) == IndexOf(B64Alphabet, ch) - 1

\* binascii.a2b_base64(s, strict_mode=False).  The decoder reads s left to
\* right: a character outside the alphabet is skipped; "=" is skipped too,
\* except that the "=" which pads a quad holding two or three data
\* characters up to four ends the decoding there, whatever follows it; input
\* that ends inside a quad raises binascii.Error.  Quad(i) is quad_pos when
\* s[i] is read, Pads(i) the value of pads once the "=" at i is counted (the
\* "=" read since the last data character).
A2bBase64(s) ==
    LET Quad(i) == Cardinality({j \in 1..(i - 1) : IsB64Char(s[j])}) % 4
        Pads(i) == Cardinality({j \in 1..i :
                        s[j] = "=" /\ \A k \in j..i : ~IsB64Char(s[k])})
        Stops == {i \in 1..Len(s) :
                     s[i] = "=" /\ Quad(i) >= 2 /\ Quad(i) + Pads(i) >= 4}
        end == IF Stops = {} THEN Len(s) + 1
               ELSE CHOOSE i \in Stops : \A j \in Stops : i <= j
        data == SelectSeq(SubSeq(s, 1, end - 1), IsB64Char)
        n == Len(data)
        v(i) == B64Value(data[i])
        Byte(k) ==
            LET q == 4 * ((k - 1) \div 3)
            IN  CASE (k - 1) % 3 = 0 -> (v(q + 1) * 4 + v(q + 2) \div 16) % 256
                  [] (k - 1) % 3 = 1 -> ((v(q + 2) % 16) * 16 + v(q + 3) \div 4) % 256
                  [] (k - 1) % 3 = 2 -> ((v(q + 3) % 4) * 64 + v(q + 4)) % 256
        ok == Stops # {} \/ n % 4 = 0
    IN  IF ok
        THEN [ok |-> TRUE,
              bytes |-> [k \in 1..(3 * (n \div 4) + (IF n % 4 = 0 THEN 0 ELSE (n % 4) - 1))
                           |-> Byte(k)]]
        ELSE [ok |-> FALSE, bytes |-> <<>>]

\* base64.urlsafe_b64decode(s): translate, then the lenient decoder.
UrlsafeB64Decode(s) == A2bBase64(UrlsafeDecodeTranslate(s))

\* binascii.b2a_base64(b, newline=False): each group of three bytes gives
\* four characters; a last group of one or two bytes is padded with "=".
B2aBase64(b) ==
    LET n == Len(b)
        At(i) == IF i <= n THEN b[i] ELSE 0
        Char(k) ==
            LET g == 3 * ((k - 1) \div 4)
            IN  CASE (k - 1) % 4 = 0 -> B64Alphabet[At(g + 1) \div 4 + 1]
                  [] (k - 1) % 4 = 1 ->
                        B64Alphabet[(At(g + 1) % 4) * 16 + At(g + 2) \div 16 + 1]
                  [] (k - 1) % 4 = 2 ->
                        IF g + 2 > n THEN "="
                        ELSE B64Alphabet[(At(g + 2) % 16) * 4 + At(g + 3) \div 64 + 1]
                  [] (k - 1) % 4 = 3 ->
                        IF g + 3 > n THEN "="
                        ELSE B64Alphabet[(At(g + 3) % 64) + 1]
    IN  [k \in 1..(4 * ((n + 2) \div 3)) |-> Char(k)]

\* base64.urlsafe_b64encode(b): encode with padding, then translate.
UrlsafeB64Encode(b) == UrlsafeEncodeTranslate(B2aBase64(b))


\* 31^n modulo 32749.
RECURSIVE PowMod(_)
PowMod(n) ==
    IF n = 0 THEN 1
    ELSE LET h == PowMod(n \div 2)
         IN  (((h * h) % 32749) * (IF n % 2 = 1 THEN 31 ELSE 1)) % 32749

\* The polynomial checksum of b[lo..hi]: sum of (b[i] + 1) * 31^(hi - i),
\* modulo 32749.
RECURSIVE Poly(_, _, _)
Poly(b, lo, hi) ==
    IF lo > hi THEN 0
    ELSE IF lo = hi THEN b[lo] + 1
    ELSE LET mid == (lo + hi) \div 2
         IN  (Poly(b, lo, mid) * PowMod(hi - mid) + Poly(b, mid + 1, hi)) % 32749

\* hmac.new(key, m, hashlib.sha256).digest(): a keyed digest of 32 bytes, a
\* function of the key bytes and the message bytes and of nothing else.  The
\* SHA-256 compression is abstracted by a polynomial checksum of the key
\* (hk) and of the key followed by the message (hm), spread over 32 bytes.
HmacSha256(key, m) ==
    LET hk == Poly(key, 1, Len(key)) + Len(key)
        hm == Poly(key \o m, 1, Len(key) + Len(m))
    IN  [i \in 1..32 |-> ((hm + i * hk) * i + hm \div 256) % 256]

(***************************************************************************)
(* src/test_api.py: the signer and the request it sends                    *)
(***************************************************************************)

\* The literals of the script.
ScriptApiKey ==
    <<"0", "1", "9", "b", "9", "2", "d", "8", "-", "9", "2", "0", "0", "-",
      "7", "e", "8", "3", "-", "9", "d", "0", "0", "-", "1", "5", "e", "7",
      "f", "2", "e", "0", "a", "5", "9", "1">>

ScriptApiSecret ==
    <<"F", "E", "X", "P", "v", "H", "Y", "k", "C", "Z", "q", "h", "b", "3",
      "R", "F", "Q", "n", "y", "x", "p", "p", "X", "k", "6", "_", "u", "U",
      "I", "e", "p", "7", "p", "a", "0", "C", "9", "V", "_", "E", "6", "m",
      "E", "=">>

ScriptPassphrase ==
    <<"2", "9", "4", "1", "0", "5", "b", "4", "b", "1", "3", "3", "c", "2",
      "9", "a", "8", "8", "7", "c", "d", "9", "3", "3", "d", "3", "7", "4",
      "8", "6", "c", "f", "c", "a", "3", "a", "4", "8", "b", "3", "a", "1",
      "8", "a", "c", "8", "9", "f", "1", "7", "f", "3", "9", "9", "6", "8",
      "1", "f", "6", "2", "d", "9", "7", "b">>

\* The method and the path written into the message literal of line 9.
ScriptMethod == <<"G", "E", "T">>

ScriptPath ==
    <<"/", "b", "a", "l", "a", "n", "c", "e", "-", "a", "l", "l", "o", "w",
      "a", "n", "c", "e">>

\* The URL literal of line 26.
ScriptUrl ==
    <<"h", "t", "t", "p", "s", ":", "/", "/", "c", "l", "o", "b", ".", "p",
      "o", "l", "y", "m", "a", "r", "k", "e", "t", ".", "c", "o", "m", "/",
      "b", "a", "l", "a", "n", "c", "e", "-", "a", "l", "l", "o", "w", "a",
      "n", "c", "e", "?", "a", "s", "s", "e", "t", "_", "t", "y", "p", "e",
      "=", "C", "O", "L", "L", "A", "T", "E", "R", "A", "L", "&", "s", "i",
      "g", "n", "a", "t", "u", "r", "e", "_", "t", "y", "p", "e", "=", "0">>

\* requests.get: the method of the request of line 26.
RequestsGetMethod == <<"G", "E", "T">>

\* A message that puts the method first.
CanonicalMessageMethodFirst(t, m, p) == m \o t \o p

\* A message that signs the path without its leading "/".
CanonicalMessageTrimmedPath(t, m, p) == t \o m \o Tail(p)

\* f"{ts}GET/balance-allowance" with the method and the path as parameters:
\* the three strings one after the other, nothing between them.
CanonicalMessage(t, m, p) == t \o m \o p

HeaderKeys == {"POLY_API_KEY", "POLY_SIGNATURE", "POLY_TIMESTAMP", "POLY_PASSPHRASE"}

NoHeaders == [k \in {} |-> <<>>]

NoRequest == [sent |-> FALSE, method |-> <<>>, url |-> <<>>, headers |-> NoHeaders]


\* ----- the steps of one run of the script by caller c -----

\* Line 8: ts = str(int(time.time())).
SampleTime(c) ==
    /\ pc[c] = "l8"
    /\ ts' = [ts EXCEPT ![c] = IntToStr(clock)]
    /\ pc' = [pc EXCEPT ![c] = "l9"]
    /\ UNCHANGED <<clock, API_KEY, API_SECRET, PASSPHRASE, method, path, msg,
                   secret, sig, headers, r, deriveVars>>

\* A message kept in one buffer that all callers share.
BuildMsgShared(c) ==
    /\ pc[c] = "l9"
    /\ msg' = [d \in DOMAIN msg |-> CanonicalMessage(ts[c], method[c], path[c])]
    /\ pc' = [pc EXCEPT ![c] = "l14"]
    /\ UNCHANGED <<clock, API_KEY, API_SECRET, PASSPHRASE, method, path, ts,
                   secret, sig, headers, r, deriveVars>>

\* Line 9: msg = f"{ts}GET/balance-allowance".
BuildMsg(c) ==
    /\ pc[c] = "l9"
    /\ msg' = [msg EXCEPT ![c] = CanonicalMessage(ts[c], method[c], path[c])]
    /\ pc' = [pc EXCEPT ![c] = "l14"]
    /\ UNCHANGED <<clock, API_KEY, API_SECRET, PASSPHRASE, method, path, ts,
                   secret, sig, headers, r, deriveVars>>

\* Line 14: secret = base64.urlsafe_b64decode(API_SECRET); binascii.Error is
\* not caught anywhere, so it ends the run.
DecodeSecret(c) ==
    /\ pc[c] = "l14"
    /\ LET d == UrlsafeB64Decode(API_SECRET[c]) IN
         /\ secret' = [secret EXCEPT ![c] = d.bytes]
         /\ pc' = [pc EXCEPT ![c] = IF d.ok THEN "l15" ELSE "raised"]
    /\ UNCHANGED <<clock, API_KEY, API_SECRET, PASSPHRASE, method, path, ts,
                   msg, sig, headers, r, deriveVars>>

\* A signature over the time of signing instead of the sampled timestamp.
ComputeSigAtSigningTime(c) ==
    /\ pc[c] = "l15"
    /\ sig' = [sig EXCEPT ![c] =
                  UrlsafeB64Encode(HmacSha256(secret[c],
                      EncodeUtf8(CanonicalMessage(IntToStr(clock), method[c], path[c]))))]
    /\ pc' = [pc EXCEPT ![c] = "l18"]
    /\ UNCHANGED <<clock, API_KEY, API_SECRET, PASSPHRASE, method, path, ts,
                   msg, secret, headers, r, deriveVars>>

\* Line 15: sig = urlsafe_b64encode(hmac.new(secret, msg.encode(), sha256).digest()).decode().
ComputeSig(c) ==
    /\ pc[c] = "l15"
    /\ sig' = [sig EXCEPT ![c] =
                  UrlsafeB64Encode(HmacSha256(secret[c], EncodeUtf8(msg[c])))]
    /\ pc' = [pc EXCEPT ![c] = "l18"]
    /\ UNCHANGED <<clock, API_KEY, API_SECRET, PASSPHRASE, method, path, ts,
                   msg, secret, headers, r, deriveVars>>

\* A headers dict whose timestamp is read from the clock again.
BuildHeadersResampled(c) ==
    /\ pc[c] = "l18"
    /\ headers' = [headers EXCEPT ![c] =
                      [POLY_API_KEY |-> API_KEY[c],
                       POLY_SIGNATURE |-> sig[c],
                       POLY_TIMESTAMP |-> IntToStr(clock),
                       POLY_PASSPHRASE |-> PASSPHRASE[c]]]
    /\ pc' = [pc EXCEPT ![c] = "l26"]
    /\ UNCHANGED <<clock, API_KEY, API_SECRET, PASSPHRASE, method, path, ts,
                   msg, secret, sig, r, deriveVars>>

\* A headers dict that leaves the passphrase out.
BuildHeadersNoPassphrase(c) ==
    /\ pc[c] = "l18"
    /\ headers' = [headers EXCEPT ![c] =
                      [POLY_API_KEY |-> API_KEY[c],
                       POLY_SIGNATURE |-> sig[c],
                       POLY_TIMESTAMP |-> ts[c]]]
    /\ pc' = [pc EXCEPT ![c] = "l26"]
    /\ UNCHANGED <<clock, API_KEY, API_SECRET, PASSPHRASE, method, path, ts,
                   msg, secret, sig, r, deriveVars>>

\* Lines 18-23: the headers dict.
BuildHeaders(c) ==
    /\ pc[c] = "l18"
    /\ headers' = [headers EXCEPT ![c] =
                      [POLY_API_KEY |-> API_KEY[c],
                       POLY_SIGNATURE |-> sig[c],
                       POLY_TIMESTAMP |-> ts[c],
                       POLY_PASSPHRASE |-> PASSPHRASE[c]]]
    /\ pc' = [pc EXCEPT ![c] = "l26"]
    /\ UNCHANGED <<clock, API_KEY, API_SECRET, PASSPHRASE, method, path, ts,
                   msg, secret, sig, r, deriveVars>>

\* Lines 26-27: requests.get(<the URL literal>, headers=headers, timeout=10).
SendRequest(c) ==
    /\ pc[c] = "l26"
    /\ r' = [r EXCEPT ![c] = [sent |-> TRUE, method |-> RequestsGetMethod,
                              url |-> ScriptUrl, headers |-> headers[c]]]
    /\ pc' = [pc EXCEPT ![c] = "done"]
    /\ UNCHANGED <<clock, API_KEY, API_SECRET, PASSPHRASE, method, path, ts,
                   msg, secret, sig, headers, deriveVars>>

\* The wall clock moves on between any two steps.
Tick(limit) ==
    /\ clock < limit
    /\ clock' = clock + 1
    /\ UNCHANGED <<pc, API_KEY, API_SECRET, PASSPHRASE, method, path, ts, msg,
                   secret, sig, headers, r, deriveVars>>

(***************************************************************************)
(* src/derive_creds.py: main                                               *)
(***************************************************************************)

\* Handlers without the inner try: everything in the outer try goes to 80.
HandlerWithoutInnerTry(line) ==
    IF line >= 42 /\ line <= 77 THEN "l80" ELSE "escaped"

\* Where an exception raised at a line of main goes: the inner try covers
\* lines 74-75 (handler at 77), the outer try lines 42-77 (handler at 80);
\* anything else leaves main.
Handler(line) ==
    IF line >= 74 /\ line <= 75 THEN "l77"
    ELSE IF line >= 42 /\ line <= 77 THEN "l80"
    ELSE "escaped"

\* float(balance.get('balance', 0)): a missing key gives 0, a numeric string
\* converts, anything else raises ValueError.
FloatOk(b) == b \in {"missing", "0", "1500000"}

Call(fn, funder) == [fn |-> fn, funder |-> funder]

\* A check that prints the error and goes on instead of returning.
CheckKeyWithoutReturn ==
    /\ dpc = "l30"
    /\ printed' = IF PRIVATE_KEY = "" THEN Append(printed, "key_error") ELSE printed
    /\ dpc' = "l35"
    /\ UNCHANGED <<PRIVATE_KEY, FUNDER, SIG_TYPE, client, creds, balance,
                   calls, signerVars>>

\* Lines 30-33.
CheckKey ==
    /\ dpc = "l30"
    /\ IF PRIVATE_KEY = ""
       THEN /\ printed' = Append(printed, "key_error")
            /\ dpc' = "done"
       ELSE /\ printed' = printed
            /\ dpc' = "l35"
    /\ UNCHANGED <<PRIVATE_KEY, FUNDER, SIG_TYPE, client, creds, balance,
                   calls, signerVars>>

\* Lines 35-39.
PrintConfig ==
    /\ dpc = "l35"
    /\ printed' = Append(printed, "config")
    /\ dpc' = "l42"
    /\ UNCHANGED <<PRIVATE_KEY, FUNDER, SIG_TYPE, client, creds, balance,
                   calls, signerVars>>

\* Lines 42-56: ClobClient(...), with funder=FUNDER only when FUNDER is set.
Construct ==
    /\ dpc = "l42"
    /\ calls' = Append(calls, Call("ClobClient",
                                   IF FUNDER # "" THEN FUNDER ELSE "absent"))
    /\ \E ok \in BOOLEAN :
         IF ok THEN client' = "client" /\ dpc' = "l58"
               ELSE client' = client /\ dpc' = Handler(42)
    /\ UNCHANGED <<PRIVATE_KEY, FUNDER, SIG_TYPE, creds, balance, printed,
                   signerVars>>

\* Lines 58-59: the derivation returns credentials, returns an object
\* without them, or raises.
Derive ==
    /\ dpc = "l58"
    /\ printed' = Append(printed, "deriving")
    /\ calls' = Append(calls, Call("create_or_derive_api_creds", "absent"))
    /\ \E res \in {"ApiCreds", "None", "raise"} :
         IF res # "raise" THEN creds' = res /\ dpc' = "l61"
                          ELSE creds' = creds /\ dpc' = Handler(59)
    /\ UNCHANGED <<PRIVATE_KEY, FUNDER, SIG_TYPE, client, balance, signerVars>>

\* Lines 61-67: the banner, then the three credential lines, which read
\* attributes of creds.
PrintSuccess ==
    /\ dpc = "l61"
    /\ IF creds = "ApiCreds"
       THEN /\ printed' = printed \o <<"success_banner", "credentials">>
            /\ dpc' = "l70"
       ELSE /\ printed' = Append(printed, "success_banner")
            /\ dpc' = Handler(64)
    /\ UNCHANGED <<PRIVATE_KEY, FUNDER, SIG_TYPE, client, creds, balance,
                   calls, signerVars>>

\* Lines 70-71.
SetApiCreds ==
    /\ dpc = "l70"
    /\ printed' = Append(printed, "testing")
    /\ calls' = Append(calls, Call("set_api_creds", "absent"))
    /\ \E ok \in BOOLEAN : dpc' = IF ok THEN "l74" ELSE Handler(71)
    /\ UNCHANGED <<PRIVATE_KEY, FUNDER, SIG_TYPE, client, creds, balance,
                   signerVars>>

\* Line 74.
GetBalanceAllowance ==
    /\ dpc = "l74"
    /\ calls' = Append(calls, Call("get_balance_allowance", "absent"))
    /\ \E res \in {"missing", "0", "1500000", "not a number", "raise"} :
         /\ balance' = res
         /\ dpc' = IF res # "raise" THEN "l75" ELSE Handler(74)
    /\ UNCHANGED <<PRIVATE_KEY, FUNDER, SIG_TYPE, client, creds, printed,
                   signerVars>>

\* Line 75.
PrintBalance ==
    /\ dpc = "l75"
    /\ IF FloatOk(balance)
       THEN printed' = Append(printed, "balance") /\ dpc' = "done"
       ELSE printed' = printed /\ dpc' = Handler(75)
    /\ UNCHANGED <<PRIVATE_KEY, FUNDER, SIG_TYPE, client, creds, balance,
                   calls, signerVars>>

\* Lines 76-77.
BalanceWarning ==
    /\ dpc = "l77"
    /\ printed' = Append(printed, "balance_warning")
    /\ dpc' = "done"
    /\ UNCHANGED <<PRIVATE_KEY, FUNDER, SIG_TYPE, client, creds, balance,
                   calls, signerVars>>

\* Lines 79-84.
OuterError ==
    /\ dpc = "l80"
    /\ printed' = Append(printed, "error_troubleshooting")
    /\ dpc' = "done"
    /\ UNCHANGED <<PRIVATE_KEY, FUNDER, SIG_TYPE, client, creds, balance,
                   calls, signerVars>>

NextDerive ==
    \/ CheckKey
    \/ PrintConfig
    \/ Construct
    \/ Derive
    \/ PrintSuccess
    \/ SetApiCreds
    \/ GetBalanceAllowance
    \/ PrintBalance
    \/ BalanceWarning
    \/ OuterError

\* The state of main before it is called, the script's run left aside.
DeriveIdle ==
    /\ dpc = "l30"
    /\ PRIVATE_KEY = ""
    /\ FUNDER = ""
    /\ SIG_TYPE = 0
    /\ client = "None"
    /\ creds = "None"
    /\ balance = "None"
    /\ calls = <<>>
    /\ printed = <<>>

\* No run of test_api.py.
SignerIdle ==
    /\ clock = 0
    /\ pc = <<>>
    /\ API_KEY = <<>>
    /\ API_SECRET = <<>>
    /\ PASSPHRASE = <<>>
    /\ method = <<>>
    /\ path = <<>>
    /\ ts = <<>>
    /\ msg = <<>>
    /\ secret = <<>>
    /\ sig = <<>>
    /\ headers = <<>>
    /\ r = <<>>

\* Lines 20, 24, 27: the environment main runs in.
InitDerive ==
    /\ SignerIdle
    /\ dpc = "l30"
    /\ PRIVATE_KEY \in {"", "0xkey"}
    /\ FUNDER \in {"", "0xfunder"}
    /\ SIG_TYPE \in {0, 1, 2}
    /\ client = "None"
    /\ creds = "None"
    /\ balance = "None"
    /\ calls = <<>>
    /\ printed = <<>>

\* main runs to its end: every call it makes returns or raises.
SpecDerive ==
    /\ InitDerive
    /\ [][NextDerive]_vars
    /\ WF_vars(NextDerive)


(***************************************************************************)
(* Inputs and specifications of the signer                                 *)
(***************************************************************************)

MaxSecretLen == 5
MaxTs == 10
MaxMethodLen == 2
MaxPathTail == 1
MaxClock == 12
MaxCallerClock == 1
NumCallers == 2

RECURSIVE StringsUpTo(_, _)
StringsUpTo(chars, n) ==
    IF n = 0 THEN {<<>>}
    ELSE LET S == StringsUpTo(chars, n - 1)
         IN  S \cup {Append(t, ch) : t \in S, ch \in chars}

\* Secret strings: data characters, both spellings of value 62, padding and
\* a character outside every base64 alphabet.
SecretChars == {"A", "-", "+", "=", "!"}

Secrets == StringsUpTo(SecretChars, MaxSecretLen)

\* The secret of the script, three more well-formed secrets (the empty one
\* among them), and one the decoder refuses.
FewSecrets ==
    {ScriptApiSecret, <<"A", "-", "A", "=">>, <<"A", "-", "=", "=">>, <<>>,
     <<"A", "A", "A">>}

\* Timestamps of one and two digits and a present-day one.
TsValues == (0..MaxTs) \cup {1700000000}

\* HTTP verbs: letters only.
Methods ==
    {ScriptMethod} \cup (StringsUpTo({"G", "T"}, MaxMethodLen) \ {<<>>})

\* Paths: "/" and whatever follows it.
Paths ==
    {ScriptPath} \cup {<<"/">> \o t : t \in StringsUpTo({"/", "G", "1"}, MaxPathTail)}

Main == {1}

Callers == 1..NumCallers

\* A run about to start, with the given literals.
Fresh(cs) ==
    /\ DeriveIdle
    /\ pc = [c \in cs |-> "l8"]
    /\ ts = [c \in cs |-> <<>>]
    /\ msg = [c \in cs |-> <<>>]
    /\ secret = [c \in cs |-> <<>>]
    /\ sig = [c \in cs |-> <<>>]
    /\ headers = [c \in cs |-> NoHeaders]
    /\ r = [c \in cs |-> NoRequest]
    /\ API_KEY = [c \in cs |-> ScriptApiKey]
    /\ PASSPHRASE = [c \in cs |-> ScriptPassphrase]

\* The script as it is: lines 4-6 and the literals of lines 9 and 26.
InitScript ==
    /\ Fresh(Main)
    /\ clock = 0
    /\ API_SECRET = [c \in Main |-> ScriptApiSecret]
    /\ method = [c \in Main |-> ScriptMethod]
    /\ path = [c \in Main |-> ScriptPath]

\* The signer of lines 8-23 over timestamps, methods and paths.
Init ==
    /\ Fresh(Main)
    /\ clock \in TsValues
    /\ API_SECRET \in [Main -> FewSecrets]
    /\ method \in [Main -> Methods]
    /\ path \in [Main -> Paths]

\* The signer of lines 8-23 over secret strings.
InitSecret ==
    /\ Fresh(Main)
    /\ clock = 0
    /\ API_SECRET \in [Main -> Secrets]
    /\ method = [c \in Main |-> ScriptMethod]
    /\ path = [c \in Main |-> ScriptPath]

CallerSecrets == {<<"A", "-", "A", "=">>, <<"A", "A", "A">>}

\* Several runs side by side.
InitCallers ==
    /\ Fresh(Callers)
    /\ clock = 0
    /\ API_SECRET \in [Callers -> CallerSecrets]
    /\ method = [c \in Callers |-> ScriptMethod]
    /\ path = [c \in Callers |-> ScriptPath]

\* A caller that has finished runs the signer again, on a secret of its choice.
Restart(c) ==
    /\ pc[c] \in {"done", "raised"}
    /\ pc' = [pc EXCEPT ![c] = "l8"]
    /\ \E s \in CallerSecrets : API_SECRET' = [API_SECRET EXCEPT ![c] = s]
    /\ ts' = [ts EXCEPT ![c] = <<>>]
    /\ msg' = [msg EXCEPT ![c] = <<>>]
    /\ secret' = [secret EXCEPT ![c] = <<>>]
    /\ sig' = [sig EXCEPT ![c] = <<>>]
    /\ headers' = [headers EXCEPT ![c] = NoHeaders]
    /\ r' = [r EXCEPT ![c] = NoRequest]
    /\ UNCHANGED <<clock, API_KEY, PASSPHRASE, method, path, deriveVars>>

\* One run (or several): whichever caller has a step to take takes it.
Next ==
    \/ \E c \in DOMAIN pc : SampleTime(c)
    \/ \E c \in DOMAIN pc : BuildMsg(c)
    \/ \E c \in DOMAIN pc : DecodeSecret(c)
    \/ \E c \in DOMAIN pc : ComputeSig(c)
    \/ \E c \in DOMAIN pc : BuildHeaders(c)
    \/ \E c \in DOMAIN pc : SendRequest(c)

NextScript ==
    \/ Next
    \/ Tick(MaxClock)

NextCallers ==
    \/ Next
    \/ \E c \in DOMAIN pc : Restart(c)
    \/ Tick(MaxCallerClock)

Spec == Init /\ [][Next]_vars

SpecSecret == InitSecret /\ [][Next]_vars

SpecScript == InitScript /\ [][NextScript]_vars

SpecCallers == InitCallers /\ [][NextCallers]_vars


(***************************************************************************)
(* What the specification says, to compare the code with                   *)
(***************************************************************************)

Min(S) == CHOOSE i \in S : \A j \in S : i <= j

\* The base64url alphabet of RFC 4648: letters, digits, "-" and "_".
IsUrlSafeChar(ch) ==
    \/ ch \in {"-", "_"}
    \/ \E i \in 1..62 : B64Alphabet[i] = ch

TrailingPads(s) ==
    IF Len(s) >= 2 /\ s[Len(s)] = "=" /\ s[Len(s) - 1] = "=" THEN 2
    ELSE IF Len(s) >= 1 /\ s[Len(s)] = "=" THEN 1
    ELSE 0

\* A padded base64url string: quads of characters of the alphabet, the last
\* quad ending in at most two "=".
IsValidBase64Url(s) ==
    /\ Len(s) % 4 = 0
    /\ \A i \in 1..(Len(s) - TrailingPads(s)) : IsUrlSafeChar(s[i])

UrlSafeValue(ch) ==
    IF ch = "-" THEN 62 ELSE IF ch = "_" THEN 63 ELSE IndexOf(B64Alphabet, ch) - 1

\* The bytes a padded base64url string stands for, quad by quad.
ReferenceDecode(s) ==
    LET n == Len(s) - TrailingPads(s)
        v(i) == UrlSafeValue(s[i])
        Byte(k) ==
            LET q == 4 * ((k - 1) \div 3)
            IN  CASE (k - 1) % 3 = 0 -> (v(q + 1) * 4 + v(q + 2) \div 16) % 256
                  [] (k - 1) % 3 = 1 -> (v(q + 2) * 16 + v(q + 3) \div 4) % 256
                  [] (k - 1) % 3 = 2 -> (v(q + 3) * 64 + v(q + 4)) % 256
    IN  [k \in 1..(3 * (Len(s) \div 4) - TrailingPads(s)) |-> Byte(k)]

\* base64url(HMAC-SHA256(decode(secret), decimal(timestamp) ++ method ++ path)).
ReferenceSignature(secretStr, t, m, p) ==
    UrlsafeB64Encode(HmacSha256(ReferenceDecode(secretStr),
                                EncodeUtf8(IntToStr(t) \o m \o p)))

\* The path of an absolute URL: from the first "/" after "scheme://host" up
\* to the query string.
UrlPath(url) ==
    LET sep == Min({i \in 1..(Len(url) - 1) : url[i] = "/" /\ url[i + 1] = "/"})
        first == Min({i \in (sep + 2)..Len(url) : url[i] = "/"})
        ends == {i \in first..Len(url) : url[i] \in {"?", "#"}}
        last == IF ends = {} THEN Len(url) ELSE Min(ends) - 1
    IN  SubSeq(url, first, last)

SigReady(c) == pc[c] \in {"l18", "l26", "done"}

Decoded(c) == pc[c] \in {"l15", "l18", "l26", "done"}


(***************************************************************************)
(* Claims                                                                  *)
(***************************************************************************)

\* C2: for every valid secret, timestamp, method and path, the signature is
\* base64url(HMAC-SHA256(key = base64url-decode(secret), message =
\* decimal(timestamp) ++ method ++ path)), the three parts concatenated in
\* that order with nothing between them and the path taken as it is; a valid
\* secret is never refused.
C2_SignatureIsHmacOfCanonicalMessage ==
    \A c \in DOMAIN pc :
        IsValidBase64Url(API_SECRET[c]) =>
            /\ pc[c] # "raised"
            /\ pc[c] \in {"l14", "l15", "l18", "l26", "done"} =>
                   msg[c] = IntToStr(clock) \o method[c] \o path[c]
            /\ SigReady(c) =>
                   sig[c] = ReferenceSignature(API_SECRET[c], clock, method[c], path[c])

\* The known vector: secret of the script, 1700000000, GET, /balance-allowance.
C2_Witness ==
    /\ pc[1] = "done"
    /\ API_SECRET[1] = ScriptApiSecret
    /\ msg[1] = <<"1", "7", "0", "0", "0", "0", "0", "0", "0", "0", "G", "E", "T">> \o ScriptPath
    /\ Len(sig[1]) = 44

HeaderSetOk(h, c) ==
    /\ DOMAIN h = HeaderKeys
    /\ \A k \in HeaderKeys : Len(h[k]) > 0
    /\ h["POLY_API_KEY"] = API_KEY[c]
    /\ h["POLY_SIGNATURE"] = sig[c]
    /\ h["POLY_TIMESTAMP"] = IntToStr(clock)
    /\ h["POLY_PASSPHRASE"] = PASSPHRASE[c]

\* C3: a header set that has been produced has exactly the four keys
\* POLY_API_KEY, POLY_SIGNATURE, POLY_TIMESTAMP, POLY_PASSPHRASE, every value
\* a non-empty string: the API key, the computed signature, the timestamp in
\* decimal and the passphrase; so has the header set of the request sent.
C3_HeaderShape ==
    \A c \in DOMAIN pc :
        /\ pc[c] \in {"l26", "done"} => HeaderSetOk(headers[c], c)
        /\ r[c].sent => HeaderSetOk(r[c].headers, c)

C3_Witness ==
    /\ pc[1] = "done"
    /\ r[1].sent
    /\ DOMAIN r[1].headers = HeaderKeys
    /\ Len(r[1].headers["POLY_TIMESTAMP"]) = 2

\* Timestamps as digit strings: those of the clock and some with leading zeros.
TsStrings ==
    {IntToStr(t) : t \in TsValues} \cup (StringsUpTo({"0", "1"}, 2) \ {<<>>})

\* C8: for timestamps that are digit strings, methods of letters only and
\* paths that start with "/", the message just built comes from no other
\* triple (timestamp, method, path) than the one it was built from.
C8_MessageUnambiguous ==
    \A c \in DOMAIN pc :
        pc[c] = "l14" =>
            \A t \in TsStrings, m \in Methods, p \in Paths :
                CanonicalMessage(t, m, p) = msg[c] =>
                    t = ts[c] /\ m = method[c] /\ p = path[c]

\* A message that another triple of the same total length, split elsewhere,
\* could be mistaken for.
C8_Witness ==
    /\ pc[1] = "l14"
    /\ \E t \in TsStrings, m \in Methods, p \in Paths :
          /\ Len(t) + Len(m) + Len(p) = Len(msg[1])
          /\ Len(t) # Len(ts[1])
          /\ Len(m) # Len(method[1])
          /\ Len(p) # Len(path[1])


\* C4: a secret string that is not valid base64url ends the signing in the
\* decoding error: no signature is produced, no header set is built and no
\* request is sent.
C4_InvalidSecretRaises ==
    \A c \in DOMAIN pc :
        (~IsValidBase64Url(API_SECRET[c]) /\ pc[c] \notin {"l8", "l9", "l14"}) =>
            /\ pc[c] = "raised"
            /\ sig[c] = <<>>
            /\ DOMAIN headers[c] = {}
            /\ ~r[c].sent

\* C5: for every secret string the signer accepts, encoding the decoded
\* bytes with base64url, padding kept, gives the secret string back.
C5_SecretRoundTrip ==
    \A c \in DOMAIN pc :
        Decoded(c) => UrlsafeB64Encode(secret[c]) = API_SECRET[c]


\* The request sent agrees with the message signed.
C7_RequestConsistent ==
    \A c \in DOMAIN pc :
        r[c].sent =>
            /\ r[c].headers["POLY_TIMESTAMP"] = ts[c]
            /\ r[c].method = <<"G", "E", "T">>
            /\ UrlPath(r[c].url) = ScriptPath
            /\ Len(UrlPath(r[c].url)) < Len(r[c].url)
            /\ \A i \in 1..Len(msg[c]) : msg[c][i] # "?"
            /\ msg[c] = r[c].headers["POLY_TIMESTAMP"] \o r[c].method \o UrlPath(r[c].url)
            /\ r[c].headers["POLY_SIGNATURE"] =
                   UrlsafeB64Encode(HmacSha256(UrlsafeB64Decode(API_SECRET[c]).bytes,
                                               EncodeUtf8(msg[c])))

\* Once sampled, the timestamp of a run is not sampled again.
C7_SampledOnce ==
    \A c \in DOMAIN pc : pc[c] # "l8" => ts'[c] = ts[c]

\* C7: in the script the timestamp is sampled once; the POLY_TIMESTAMP header
\* is the timestamp string in the signed message, POLY_SIGNATURE signs that
\* message, the method sent (GET) is the method in the message, and the
\* signed path /balance-allowance is the path of the URL requested, whose
\* query string is not in the message.
C7_ScriptRequestSelfConsistent ==
    [](C7_RequestConsistent) /\ [][C7_SampledOnce]_vars

\* The request is sent after the clock has moved on from the sampled time.
C7_Witness ==
    /\ pc[1] = "done"
    /\ r[1].sent
    /\ ts[1] # IntToStr(clock)
    /\ Len(ts[1]) = 2


SameArguments(c, d) ==
    /\ API_SECRET[c] = API_SECRET[d]
    /\ ts[c] = ts[d]
    /\ method[c] = method[d]
    /\ path[c] = path[d]

\* C1: two invocations with the same (api_secret, timestamp, method, path)
\* end alike, refused or not, and return the same signature, whatever other
\* invocations ran before or between them and whatever the time of signing.
C1_SignDeterministic ==
    \A c \in DOMAIN pc, d \in DOMAIN pc :
        (Len(ts[c]) > 0 /\ SameArguments(c, d)) =>
            /\ (SigReady(c) /\ SigReady(d)) => sig[c] = sig[d]
            /\ ~(pc[c] = "raised" /\ Decoded(d))

\* Two finished invocations on the same arguments, the clock having moved on.
C1_Witness ==
    /\ pc[1] = "done"
    /\ pc[2] = "done"
    /\ SameArguments(1, 2)
    /\ Len(sig[1]) = 44
    /\ ts[1] # IntToStr(clock)

\* What a caller gets when it runs alone on its own arguments.
AloneSig(c) ==
    UrlsafeB64Encode(HmacSha256(UrlsafeB64Decode(API_SECRET[c]).bytes,
                                EncodeUtf8(CanonicalMessage(ts[c], method[c], path[c]))))

AloneHeaders(c) ==
    [POLY_API_KEY |-> API_KEY[c], POLY_SIGNATURE |-> AloneSig(c),
     POLY_TIMESTAMP |-> ts[c], POLY_PASSPHRASE |-> PASSPHRASE[c]]

\* C6: under every interleaving of the callers' steps, each caller obtains
\* the signature and the header set it would obtain running alone on its
\* arguments, and is refused only if it would be refused alone.
C6_CallersDoNotInterfere ==
    \A c \in DOMAIN pc :
        /\ SigReady(c) => sig[c] = AloneSig(c)
        /\ pc[c] \in {"l26", "done"} => headers[c] = AloneHeaders(c)
        /\ pc[c] = "done" => r[c].sent /\ r[c].headers = AloneHeaders(c)
        /\ pc[c] = "raised" => ~UrlsafeB64Decode(API_SECRET[c]).ok
        /\ Decoded(c) => UrlsafeB64Decode(API_SECRET[c]).ok

\* One caller has finished while another, signing another message, is
\* between decoding its secret and computing its signature.
C6_Witness ==
    /\ pc[1] = "done"
    /\ pc[2] = "l15"
    /\ msg[1] # msg[2]


ClobClientCalls == {i \in 1..Len(calls) : calls[i].fn = "ClobClient"}

Printed(b) == \E i \in 1..Len(printed) : printed[i] = b

\* C9: with WALLET_PRIVATE_KEY unset or empty, main prints the error and
\* returns: no client is constructed, no credentials are derived or printed,
\* no balance call is made.  With the key set, the client is constructed
\* exactly once, with the funder argument if and only if FUNDER_ADDRESS is
\* non-empty.
C9_KeyGuardAndSingleConstruction ==
    /\ PRIVATE_KEY = "" =>
          /\ dpc \in {"l30", "done"}
          /\ calls = <<>>
          /\ client = "None" /\ creds = "None" /\ balance = "None"
          /\ printed = IF dpc = "done" THEN <<"key_error">> ELSE <<>>
    /\ PRIVATE_KEY # "" =>
          /\ ~Printed("key_error")
          /\ Cardinality(ClobClientCalls) = IF dpc \in {"l30", "l35", "l42"} THEN 0 ELSE 1
          /\ \A i \in ClobClientCalls :
                IF FUNDER # "" THEN calls[i].funder = FUNDER
                               ELSE calls[i].funder = "absent"

\* main has returned after all four calls, the client built with a funder.
C9_Witness ==
    /\ dpc = "done"
    /\ PRIVATE_KEY # ""
    /\ FUNDER # ""
    /\ Len(calls) = 4
    /\ calls[1] = Call("ClobClient", FUNDER)

CallOrder ==
    <<"ClobClient", "create_or_derive_api_creds", "set_api_creds",
      "get_balance_allowance">>

BalanceFailed == balance = "raise" \/ (balance # "None" /\ ~FloatOk(balance))

C10_Order ==
    /\ dpc # "escaped"
    /\ Len(calls) <= Len(CallOrder)
    /\ \A i \in 1..Len(calls) : calls[i].fn = CallOrder[i]
    /\ Printed("credentials") =>
          /\ creds = "ApiCreds"
          /\ Len(calls) >= 2
          /\ \E i \in 1..Len(printed), j \in 1..Len(printed) :
                i < j /\ printed[i] = "deriving" /\ printed[j] = "credentials"
    /\ (dpc = "done" /\ BalanceFailed) =>
          /\ printed[Len(printed)] = "balance_warning"
          /\ ~Printed("error_troubleshooting")
          /\ Printed("credentials")
    /\ Printed("balance_warning") => BalanceFailed
    /\ (dpc = "done" /\ PRIVATE_KEY # "" /\ Len(calls) <= 2) =>
          /\ printed[Len(printed)] = "error_troubleshooting"
          /\ ~Printed("credentials")
          /\ balance = "None"

\* C10: main runs construct client, create_or_derive_api_creds, print the
\* credentials, set_api_creds, get_balance_allowance in that order; the
\* credentials are printed only after the derivation has returned them; a
\* failed balance call gives only the balance warning, the credentials
\* staying printed; a failed construction or derivation gives the outer
\* error with no credentials printed and no balance call; no exception
\* leaves main, and main returns in every case.
C10_StepOrderAndTermination ==
    [](C10_Order) /\ <>(dpc = "done")

\* The balance call raised and main returned after the warning.
C10_Witness ==
    /\ dpc = "done"
    /\ balance = "raise"
    /\ printed[Len(printed)] = "balance_warning"
    /\ Printed("credentials")

====
